---- MODULE Spec2Model ----
(***************************************************************************)
(* State machine of the browser client in frontend/src/App.js: the App     *)
(* component (session holder), UserCreationForm, FinancialDashboard and    *)
(* PlaidLinkButton.  Every event handler, effect and promise continuation  *)
(* is one action; the re-render React performs after a handler's state     *)
(* updates (which mounts or unmounts PlaidLinkButton) is part of the       *)
(* action that caused it.  The backend and the Plaid widget are the        *)
(* environment: a response is delivered to any request in flight, with     *)
(* any outcome.                                                            *)
(***************************************************************************)
EXTENDS Bags, FiniteSets, Integers, Sequences, TLC

\* ------------------------------------------------------------------ bounds
MaxUserActions == 2

\* ------------------------------------------------------------- value sets
NoUser == [null |-> TRUE]
Users == { [id |-> "u1", full_name |-> "Ada Lovelace"],
           [id |-> "u2", full_name |-> "Bob"] }
StoredUser == [id |-> "u1", full_name |-> "Ada Lovelace"]

NoItem == [absent |-> TRUE]
NoData == [null |-> TRUE]
NoScore == 0
Snapshots == { [net_worth |-> 100, financial_health_score |-> NoScore],
               [net_worth |-> 200, financial_health_score |-> 764] }
InsightLists == { << >>, <<"i1">> }
NoToken == [null |-> TRUE]
PublicTokens == { "public-token" }
Scores == { 764 }
PromptInputs == { "", "3000" }
Errors == { [detail |-> "backend detail", message |-> "Request failed"],
            [detail |-> "", message |-> "Network Error"] }

\* error.response?.data?.detail || error.message
ErrText(e) == IF e.detail # "" THEN e.detail ELSE e.message

\* JSON.stringify / JSON.parse of the user record kept in localStorage
Stringify(u) == [json |-> <<<<"id", u.id>>, <<"full_name", u.full_name>>>>]
Parse(s) == [id |-> s.json[1][2], full_name |-> s.json[2][2]]

\* parseFloat of the prompt's text; 0 stands for null/NaN (both falsy)
ParseFloat(txt) == IF txt = "3000" THEN 3000 ELSE 0
IncomeQuery(txt) == IF txt # "" /\ ParseFloat(txt) # 0 THEN txt ELSE "none"

\* ------------------------------------------------------------- requests
\* live: the PlaidLinkButton instance that issued the request is still mounted
\* inner: the request was issued by fetchDashboard/fetchInsights awaited
\*        inside calculateHealthScore/runSpendingAnalysis
Req(kind, uid, live, inner, arg) ==
  [kind |-> kind, uid |-> uid, live |-> live, inner |-> inner, arg |-> arg]

PlaidKinds == {"create_link_token", "exchange_public_token", "sync_accounts"}
ActionKinds == {"analyze_spending", "calculate_financial_health", "generate_budget"}

Send(fl, r) == fl (+) SetToBag({r})
Settle(fl, r) == fl (-) SetToBag({r})

\* an unmounted PlaidLinkButton leaves its requests in flight
Stale(r) == IF r.kind \in PlaidKinds THEN [r EXCEPT !.live = FALSE] ELSE r
Orphan(fl) ==
  [s \in {Stale(r) : r \in BagToSet(fl)} |->
     IF s.kind \in PlaidKinds
       THEN CopiesIn(s, fl) + CopiesIn([s EXCEPT !.live = TRUE], fl)
       ELSE CopiesIn(s, fl)]

\* ---------------------------------------------------------------- state
VARIABLES
  localStorage,    \* item 'financialAppUser' or NoItem
  appMounted,      \* App's mount effects have run
  user,            \* App.user
  formLoading,     \* UserCreationForm.loading
  dashMounted,     \* FinancialDashboard's mount effect has run
  dashboardData,   \* FinancialDashboard.dashboardData
  insights,        \* FinancialDashboard.insights
  loading,         \* FinancialDashboard.loading
  plaid,           \* the mounted PlaidLinkButton instance, if any
  inflight,        \* bag of requests awaiting a response
  nUser,           \* number of user actions taken
  step,            \* what the last handler did: request settled, alerts, refresh
  burst            \* history of the current run of overlapping fetchDashboard calls
vars == <<localStorage, appMounted, user, formLoading, dashMounted,
          dashboardData, insights, loading, plaid, inflight, nUser, step, burst>>

Unmounted == [mounted |-> FALSE, linkToken |-> NoToken, loading |-> FALSE, open |-> FALSE]
FreshButton == [mounted |-> TRUE, linkToken |-> NoToken, loading |-> FALSE, open |-> FALSE]

\* step: the handler that ran last (act), the request whose response it
\* handled (settled, ok, data), the alerts it showed and the number of times
\* it invoked PlaidLinkButton's onSuccess prop
NoReq == Req("none", "none", FALSE, FALSE, "none")
NoPayload == [none |-> TRUE]
EvData(act, r, ok, data, shown, refresh) ==
  [act |-> act, settled |-> r, ok |-> ok, data |-> data, shown |-> shown, refresh |-> refresh]
Ev(act, r, ok, shown, refresh) == EvData(act, r, ok, NoPayload, shown, refresh)
Quiet(act) == Ev(act, NoReq, FALSE, << >>, 0)

Alert(type, msg) == [type |-> type, msg |-> msg]
ErrAlert(prefix, e) == Alert("error", <<prefix, ErrText(e)>>)

\* history of fetchDashboard calls since the last moment none was in flight:
\* the snapshot stored then, whether two calls overlapped, and the payloads of
\* the last two successful responses in arrival order
NoBurst == [before |-> NoData, overlap |-> FALSE, arrived |-> << >>]
DashboardsInFlight(fl) == {r \in BagToSet(fl) : r.kind = "dashboard"}
BurstStart(b, fl, dd) ==
  IF DashboardsInFlight(fl) = {}
    THEN [before |-> dd, overlap |-> FALSE, arrived |-> << >>]
    ELSE [b EXCEPT !.overlap = TRUE]
BurstArrive(b, ok, data) ==
  IF ~ok THEN b
  ELSE [b EXCEPT !.arrived = IF Len(@) < 2 THEN Append(@, data) ELSE <<@[2], data>>]

\* ------------------------------------------------------- rendering rules
\* App: if (!user) return <UserCreationForm/>; else <FinancialDashboard/>
View == IF ~appMounted THEN "none"
        ELSE IF user = NoUser THEN "create" ELSE "dashboard"

\* FinancialDashboard: if (loading && !dashboardData) return spinner
FullScreenLoading(ld, dd) == ld /\ dd = NoData

\* action buttons: rendered in the main view, disabled={loading}
TriggersEnabled == dashMounted /\ ~FullScreenLoading(loading, dashboardData) /\ ~loading

\* variant: the button is enabled without a link token
CanOpen_NoTokenCheck(pl) == pl.mounted /\ ~pl.loading /\ ~pl.open

\* PlaidLinkButton: disabled button unless linkToken && !loading; then
\* disabled={!ready || loading}; ready once the widget is set up with a token
CanOpen(pl) == pl.mounted /\ pl.linkToken # NoToken /\ ~pl.loading /\ ~pl.open

\* PlaidLinkButton mount effect: if (user && !linkToken) createLinkToken()
MountButton(u, fl) ==
  IF u # NoUser /\ FreshButton.linkToken = NoToken
    THEN [plaid |-> [FreshButton EXCEPT !.loading = TRUE],
          inflight |-> Send(fl, Req("create_link_token", u.id, TRUE, FALSE, "none"))]
    ELSE [plaid |-> FreshButton, inflight |-> fl]

\* The re-render after a handler: PlaidLinkButton is a child of the main view
\* only, so it is unmounted by the full-screen loading view and mounted anew
\* (fresh state, mount effect) when the main view comes back.
Render(ld, dd, pl, fl, u) ==
  IF pl.mounted /\ FullScreenLoading(ld, dd)
    THEN [plaid |-> Unmounted, inflight |-> Orphan(fl)]
  ELSE IF ~pl.mounted /\ ~FullScreenLoading(ld, dd)
    THEN MountButton(u, fl)
  ELSE [plaid |-> pl, inflight |-> fl]

\* ------------------------------------------------------------------ Init
Init ==
  /\ localStorage \in {NoItem, Stringify(StoredUser)}
  /\ appMounted = FALSE
  /\ user = NoUser
  /\ formLoading = FALSE
  /\ dashMounted = FALSE
  /\ dashboardData = NoData
  /\ insights = << >>
  /\ loading = FALSE
  /\ plaid = Unmounted
  /\ inflight = EmptyBag
  /\ nUser = 0
  /\ step = Quiet("Init")
  /\ burst = NoBurst

\* variant: the restored user is looked up on the backend
AppMount_Validates ==
  /\ ~appMounted
  /\ appMounted' = TRUE
  /\ user' = IF localStorage # NoItem THEN Parse(localStorage) ELSE user
  /\ inflight' = IF localStorage # NoItem
                   THEN Send(Send(inflight, Req("health_check", "none", FALSE, FALSE, "none")),
                             Req("get_user", Parse(localStorage).id, FALSE, FALSE, "none"))
                   ELSE Send(inflight, Req("health_check", "none", FALSE, FALSE, "none"))
  /\ step' = Quiet("AppMount")
  /\ UNCHANGED <<burst, localStorage, formLoading, dashMounted, dashboardData,
                 insights, loading, plaid, nUser>>

\* ------------------------------------------------------------------- App
\* App mount: testConnection effect, then the restore effect
AppMount ==
  /\ ~appMounted
  /\ appMounted' = TRUE
  /\ inflight' = Send(inflight, Req("health_check", "none", FALSE, FALSE, "none"))
  /\ user' = IF localStorage # NoItem THEN Parse(localStorage) ELSE user
  /\ step' = Quiet("AppMount")
  /\ UNCHANGED <<burst, localStorage, formLoading, dashMounted, dashboardData,
                 insights, loading, plaid, nUser>>

\* testConnection's response: console output only
HealthCheckResponse ==
  \E r \in BagToSet(inflight), ok \in BOOLEAN :
    /\ r.kind = "health_check"
    /\ inflight' = Settle(inflight, r)
    /\ step' = Ev("HealthCheckResponse", r, ok, << >>, 0)
    /\ UNCHANGED <<burst, localStorage, appMounted, user, formLoading, dashMounted,
                   dashboardData, insights, loading, plaid, nUser>>

\* UserCreationForm.handleSubmit up to the await
Submit ==
  /\ View = "create"
  /\ ~formLoading
  /\ nUser < MaxUserActions
  /\ nUser' = nUser + 1
  /\ formLoading' = TRUE
  /\ inflight' = Send(inflight, Req("create_user", "none", FALSE, FALSE, "none"))
  /\ step' = Quiet("Submit")
  /\ UNCHANGED <<burst, localStorage, appMounted, user, dashMounted, dashboardData,
                 insights, loading, plaid>>

\* variant: the new user is not written to localStorage
HandleUserCreated_NoPersist(newUser) ==
  /\ user' = newUser
  /\ localStorage' = localStorage

\* App.handleUserCreated
HandleUserCreated(newUser) ==
  /\ user' = newUser
  /\ localStorage' = Stringify(newUser)

\* UserCreationForm.handleSubmit after the await
CreateUserResponse ==
  \E r \in BagToSet(inflight) :
    /\ r.kind = "create_user"
    /\ inflight' = Settle(inflight, r)
    /\ formLoading' = FALSE
    /\ \/ \E u \in Users :
            /\ HandleUserCreated(u)
            /\ step' = EvData("CreateUserResponse", r, TRUE, [user |-> u], << >>, 0)
       \/ \E e \in Errors :
            /\ UNCHANGED <<user, localStorage>>
            /\ step' = Ev("CreateUserResponse", r, FALSE, <<ErrAlert("Error creating user: ", e)>>, 0)
    /\ UNCHANGED <<burst, appMounted, dashMounted, dashboardData, insights, loading,
                   plaid, nUser>>

\* --------------------------------------------------- FinancialDashboard
\* Number.prototype.toFixed(1) of the score (scores are kept in tenths)
ToFixed1(t) == IF t = 764 THEN "76.4" ELSE "0.0"

\* fetchDashboard up to the await: setLoading(true), GET dashboard
FetchDashboardStart(fl, u, inner, arg) == Send(fl, Req("dashboard", u.id, FALSE, inner, arg))

\* fetchInsights up to the await: GET insights?limit=10
FetchInsightsStart(fl, u, inner) == Send(fl, Req("insights", u.id, FALSE, inner, "none"))

\* variant: the response is merged into the stored snapshot, keeping the old
\* score when the new snapshot has none
FetchDashboardResult_Merge(old, ok, data) ==
  IF ~ok THEN old
  ELSE IF old = NoData THEN data
  ELSE [data EXCEPT !.financial_health_score =
          IF @ = NoScore THEN old.financial_health_score ELSE @]

\* variant: the catch branch clears the stored snapshot
FetchDashboardResult_ClearOnError(old, ok, data) == IF ok THEN data ELSE NoData

\* fetchDashboard's effect on dashboardData: setDashboardData(response.data)
\* replaces the snapshot as a whole; the catch branch only logs
FetchDashboardResult(old, ok, data) == IF ok THEN data ELSE old

\* fetchInsights's effect on insights: setInsights(response.data), or log only
FetchInsightsResult(old, ok, data) == IF ok THEN data ELSE old

\* FinancialDashboard mounts: first render shows the main view (loading is
\* false), so PlaidLinkButton mounts and runs its effect; then the dashboard's
\* own effect runs fetchDashboard and fetchInsights, and the re-render with
\* loading = true and no data replaces the main view by the loading view.
DashboardMount ==
  /\ View = "dashboard"
  /\ ~dashMounted
  /\ burst' = BurstStart(burst, inflight, dashboardData)
  /\ dashMounted' = TRUE
  /\ LET m == MountButton(user, inflight)
         fl == FetchInsightsStart(
                 FetchDashboardStart(m.inflight, user, FALSE, "none"), user, FALSE)
         rr == Render(TRUE, dashboardData, m.plaid, fl, user)
     IN /\ loading' = TRUE
        /\ plaid' = rr.plaid
        /\ inflight' = rr.inflight
  /\ step' = Quiet("DashboardMount")
  /\ UNCHANGED <<localStorage, appMounted, user, formLoading, dashboardData,
                 insights, nUser>>

\* fetchDashboard after the await; when awaited by calculateHealthScore
\* (inner), that handler's alert and finally run in the same turn
DashboardResponse ==
  \E r \in BagToSet(inflight) :
    /\ r.kind = "dashboard"
    /\ \E ok \in BOOLEAN, data \in Snapshots :
         LET dd == FetchDashboardResult(dashboardData, ok, data)
             shown == IF r.inner
                        THEN <<Alert("info", <<"Financial Health Score calculated: ", r.arg>>)>>
                        ELSE << >>
             rr == Render(FALSE, dd, plaid, Settle(inflight, r), user)
         IN /\ dashboardData' = dd
            /\ burst' = BurstArrive(burst, ok, data)
            /\ loading' = FALSE
            /\ plaid' = rr.plaid
            /\ inflight' = rr.inflight
            /\ step' = EvData("DashboardResponse", r, ok,
                              IF ok THEN [snapshot |-> data] ELSE NoPayload, shown, 0)
    /\ UNCHANGED <<localStorage, appMounted, user, formLoading, dashMounted,
                   insights, nUser>>

\* variant: the insights are stored only once a snapshot is there
InsightsResponse_NeedsSnapshot ==
  \E r \in BagToSet(inflight) :
    /\ r.kind = "insights"
    /\ \E ok \in BOOLEAN, data \in InsightLists :
         LET ld == IF r.inner THEN FALSE ELSE loading
             shown == IF r.inner
                        THEN <<Alert("info", <<"AI spending analysis completed!", "">>)>>
                        ELSE << >>
             rr == Render(ld, dashboardData, plaid, Settle(inflight, r), user)
         IN /\ insights' = IF dashboardData = NoData THEN insights
                           ELSE FetchInsightsResult(insights, ok, data)
            /\ loading' = ld
            /\ plaid' = rr.plaid
            /\ inflight' = rr.inflight
            /\ step' = EvData("InsightsResponse", r, ok,
                              IF ok THEN [insights |-> data] ELSE NoPayload, shown, 0)
    /\ UNCHANGED <<burst, localStorage, appMounted, user, formLoading, dashMounted,
                   dashboardData, nUser>>

\* fetchInsights after the await; when awaited by runSpendingAnalysis
\* (inner), that handler's alert and finally run in the same turn
InsightsResponse ==
  \E r \in BagToSet(inflight) :
    /\ r.kind = "insights"
    /\ \E ok \in BOOLEAN, data \in InsightLists :
         LET ld == IF r.inner THEN FALSE ELSE loading
             shown == IF r.inner
                        THEN <<Alert("info", <<"AI spending analysis completed!", "">>)>>
                        ELSE << >>
             rr == Render(ld, dashboardData, plaid, Settle(inflight, r), user)
         IN /\ insights' = FetchInsightsResult(insights, ok, data)
            /\ loading' = ld
            /\ plaid' = rr.plaid
            /\ inflight' = rr.inflight
            /\ step' = EvData("InsightsResponse", r, ok,
                              IF ok THEN [insights |-> data] ELSE NoPayload, shown, 0)
    /\ UNCHANGED <<burst, localStorage, appMounted, user, formLoading, dashMounted,
                   dashboardData, nUser>>

\* a click on one of the three action buttons: setLoading(true), POST
\* (the open Plaid widget is a modal over the page: no click reaches the buttons)
ActionStart(kind, arg) ==
  /\ TriggersEnabled
  /\ ~plaid.open
  /\ nUser < MaxUserActions
  /\ nUser' = nUser + 1
  /\ LET rr == Render(TRUE, dashboardData, plaid,
                      Send(inflight, Req(kind, user.id, FALSE, FALSE, arg)), user)
     IN /\ loading' = TRUE
        /\ plaid' = rr.plaid
        /\ inflight' = rr.inflight
  /\ step' = Quiet("ActionStart")
  /\ UNCHANGED <<burst, localStorage, appMounted, user, formLoading, dashMounted,
                 dashboardData, insights>>

RunSpendingAnalysis == ActionStart("analyze_spending", "none")
CalculateHealthScore == ActionStart("calculate_financial_health", "none")
GenerateBudgetRecommendations ==
  \E txt \in PromptInputs : ActionStart("generate_budget", IncomeQuery(txt))

\* variant: the success alert is shown without re-fetching the insights
AnalyzeResponse_NoRefetch ==
  \E r \in BagToSet(inflight) :
    /\ r.kind = "analyze_spending"
    /\ \E shown \in {<<Alert("info", <<"AI spending analysis completed!", "">>)>>}
               \cup {<<ErrAlert("Error running analysis: ", e)>> : e \in Errors} :
         LET rr == Render(FALSE, dashboardData, plaid, Settle(inflight, r), user)
         IN /\ loading' = FALSE
            /\ plaid' = rr.plaid
            /\ inflight' = rr.inflight
            /\ step' = Ev("AnalyzeResponse", r, shown[1].type = "info", shown, 0)
    /\ UNCHANGED <<burst, localStorage, appMounted, user, formLoading, dashMounted,
                   dashboardData, insights, nUser>>

\* runSpendingAnalysis after its first await
AnalyzeResponse ==
  \E r \in BagToSet(inflight) :
    /\ r.kind = "analyze_spending"
    /\ \/ /\ LET rr == Render(loading, dashboardData, plaid,
                              FetchInsightsStart(Settle(inflight, r), user, TRUE), user)
             IN /\ loading' = loading
                /\ plaid' = rr.plaid
                /\ inflight' = rr.inflight
          /\ step' = Ev("AnalyzeResponse", r, TRUE, << >>, 0)
       \/ \E e \in Errors :
            LET rr == Render(FALSE, dashboardData, plaid, Settle(inflight, r), user)
            IN /\ loading' = FALSE
               /\ plaid' = rr.plaid
               /\ inflight' = rr.inflight
               /\ step' = Ev("AnalyzeResponse", r, FALSE, <<ErrAlert("Error running analysis: ", e)>>, 0)
    /\ UNCHANGED <<burst, localStorage, appMounted, user, formLoading, dashMounted,
                   dashboardData, insights, nUser>>

\* calculateHealthScore after its first await
HealthScoreResponse ==
  \E r \in BagToSet(inflight) :
    /\ r.kind = "calculate_financial_health"
    /\ \/ \E sc \in Scores :
            LET rr == Render(TRUE, dashboardData, plaid,
                             FetchDashboardStart(Settle(inflight, r), user, TRUE, ToFixed1(sc)),
                             user)
            IN /\ loading' = TRUE
               /\ plaid' = rr.plaid
               /\ inflight' = rr.inflight
               /\ burst' = BurstStart(burst, inflight, dashboardData)
               /\ step' = Ev("HealthScoreResponse", r, TRUE, << >>, 0)
       \/ \E e \in Errors :
            LET rr == Render(FALSE, dashboardData, plaid, Settle(inflight, r), user)
            IN /\ loading' = FALSE
               /\ plaid' = rr.plaid
               /\ inflight' = rr.inflight
               /\ burst' = burst
               /\ step' = Ev("HealthScoreResponse", r, FALSE, <<ErrAlert("Error calculating health score: ", e)>>, 0)
    /\ UNCHANGED <<localStorage, appMounted, user, formLoading, dashMounted,
                   dashboardData, insights, nUser>>

\* generateBudgetRecommendations after its await
BudgetResponse ==
  \E r \in BagToSet(inflight) :
    /\ r.kind = "generate_budget"
    /\ \E shown \in {<<Alert("info", <<"Budget recommendations generated!", "">>)>>}
               \cup {<<ErrAlert("Error generating budget recommendations: ", e)>> : e \in Errors} :
         LET rr == Render(FALSE, dashboardData, plaid, Settle(inflight, r), user)
         IN /\ loading' = FALSE
            /\ plaid' = rr.plaid
            /\ inflight' = rr.inflight
            /\ step' = Ev("BudgetResponse", r, shown[1].type = "info", shown, 0)
    /\ UNCHANGED <<burst, localStorage, appMounted, user, formLoading, dashMounted,
                   dashboardData, insights, nUser>>

\* "+ Manual Account": onCreateAccount = () => alert('Account creation coming soon!')
ManualAccount ==
  /\ dashMounted
  /\ ~FullScreenLoading(loading, dashboardData)
  /\ ~plaid.open
  /\ step' = Ev("ManualAccount", NoReq, FALSE, <<Alert("info", <<"Account creation coming soon!", "">>)>>, 0)
  /\ UNCHANGED <<burst, localStorage, appMounted, user, formLoading, dashMounted,
                 dashboardData, insights, loading, plaid, inflight, nUser>>

\* ------------------------------------------------------ PlaidLinkButton
\* the backend's link token for the user named in the request path
LinkTokenFor(uid) == [link_token |-> "link-token", uid |-> uid]

\* variant: the update reaches whichever instance is mounted now
SetButton_AnyInstance(pl, live, field, v) ==
  IF pl.mounted THEN [pl EXCEPT ![field] = v] ELSE pl

\* setLinkToken / setLoading of a PlaidLinkButton instance: React drops
\* state updates of an instance that is no longer mounted
SetButton(pl, live, field, v) ==
  IF live /\ pl.mounted THEN [pl EXCEPT ![field] = v] ELSE pl

\* variant: createLinkToken resets loading in the try block only
LinkTokenResponse_NoFinally ==
  \E r \in BagToSet(inflight) :
    /\ r.kind = "create_link_token"
    /\ inflight' = Settle(inflight, r)
    /\ \/ /\ plaid' = SetButton(SetButton(plaid, r.live, "linkToken", LinkTokenFor(r.uid)),
                                r.live, "loading", FALSE)
          /\ step' = Ev("LinkTokenResponse", r, TRUE, << >>, 0)
       \/ \E e \in Errors :
            /\ plaid' = plaid
            /\ step' = Ev("LinkTokenResponse", r, FALSE, <<ErrAlert("Error setting up bank connection: ", e)>>, 0)
    /\ UNCHANGED <<burst, localStorage, appMounted, user, formLoading, dashMounted,
                   dashboardData, insights, loading, nUser>>

\* createLinkToken after the await
LinkTokenResponse ==
  \E r \in BagToSet(inflight) :
    /\ r.kind = "create_link_token"
    /\ inflight' = Settle(inflight, r)
    /\ \/ /\ plaid' = SetButton(SetButton(plaid, r.live, "linkToken", LinkTokenFor(r.uid)),
                                r.live, "loading", FALSE)
          /\ step' = Ev("LinkTokenResponse", r, TRUE, << >>, 0)
       \/ \E e \in Errors :
            /\ plaid' = SetButton(plaid, r.live, "loading", FALSE)
            /\ step' = Ev("LinkTokenResponse", r, FALSE, <<ErrAlert("Error setting up bank connection: ", e)>>, 0)
    /\ UNCHANGED <<burst, localStorage, appMounted, user, formLoading, dashMounted,
                   dashboardData, insights, loading, nUser>>

\* click on "Connect Real Bank Account": open()
PlaidOpen ==
  /\ CanOpen(plaid)
  /\ nUser < MaxUserActions
  /\ nUser' = nUser + 1
  /\ plaid' = [plaid EXCEPT !.open = TRUE]
  /\ step' = Quiet("PlaidOpen")
  /\ UNCHANGED <<burst, localStorage, appMounted, user, formLoading, dashMounted,
                 dashboardData, insights, loading, inflight>>

\* variant: an exit with an error is reported to the user
OnExit_Alerts ==
  /\ plaid.mounted /\ plaid.open
  /\ \E err \in BOOLEAN :
       /\ plaid' = [plaid EXCEPT !.open = FALSE]
       /\ step' = IF err
                    THEN Ev("OnExit", NoReq, FALSE, <<Alert("error", <<"Plaid Link exit error", "">>)>>, 0)
                    ELSE Quiet("OnExit")
  /\ UNCHANGED <<burst, localStorage, appMounted, user, formLoading, dashMounted,
                 dashboardData, insights, loading, inflight, nUser>>

\* config.onExit: the end-user closed the widget; console output only
OnExit ==
  /\ plaid.mounted /\ plaid.open
  /\ \E err \in BOOLEAN :
       /\ plaid' = [plaid EXCEPT !.open = FALSE]
       /\ step' = Quiet("OnExit")
  /\ UNCHANGED <<burst, localStorage, appMounted, user, formLoading, dashMounted,
                 dashboardData, insights, loading, inflight, nUser>>

\* config.onSuccess up to the first await
OnSuccessStart ==
  /\ plaid.mounted /\ plaid.open
  /\ \E pt \in PublicTokens :
       /\ plaid' = [plaid EXCEPT !.open = FALSE, !.loading = TRUE]
       /\ inflight' = Send(inflight, Req("exchange_public_token", user.id, TRUE, FALSE, pt))
  /\ step' = Quiet("OnSuccessStart")
  /\ UNCHANGED <<burst, localStorage, appMounted, user, formLoading, dashMounted,
                 dashboardData, insights, loading, nUser>>

\* config.onSuccess after the exchange-public-token await
ExchangeResponse ==
  \E r \in BagToSet(inflight) :
    /\ r.kind = "exchange_public_token"
    /\ \/ /\ inflight' = Send(Settle(inflight, r),
                              Req("sync_accounts", r.uid, r.live, FALSE, "none"))
          /\ plaid' = plaid
          /\ step' = Ev("ExchangeResponse", r, TRUE, << >>, 0)
       \/ \E e \in Errors :
            /\ inflight' = Settle(inflight, r)
            /\ plaid' = SetButton(plaid, r.live, "loading", FALSE)
            /\ step' = Ev("ExchangeResponse", r, FALSE, <<ErrAlert("Error connecting bank account: ", e)>>, 0)
    /\ UNCHANGED <<burst, localStorage, appMounted, user, formLoading, dashMounted,
                   dashboardData, insights, loading, nUser>>

\* variant: onSuccess() is called in the finally block, after either outcome
SyncResponse_RefreshInFinally ==
  \E r \in BagToSet(inflight) :
    /\ r.kind = "sync_accounts"
    /\ \E shown \in {<<Alert("info", <<"Bank account connected successfully!", "">>)>>}
               \cup {<<ErrAlert("Error connecting bank account: ", e)>> : e \in Errors} :
         LET rr == Render(TRUE, dashboardData, SetButton(plaid, r.live, "loading", FALSE),
                          FetchDashboardStart(Settle(inflight, r), user, FALSE, "none"), user)
         IN /\ loading' = TRUE
            /\ burst' = BurstStart(burst, inflight, dashboardData)
            /\ plaid' = rr.plaid
            /\ inflight' = rr.inflight
            /\ step' = Ev("SyncResponse", r, shown[1].type = "info", shown, 1)
    /\ UNCHANGED <<localStorage, appMounted, user, formLoading, dashMounted,
                   dashboardData, insights, nUser>>

\* config.onSuccess after the sync-accounts await: alert, onSuccess() (the
\* dashboard's fetchDashboard up to its await), finally
SyncResponse ==
  \E r \in BagToSet(inflight) :
    /\ r.kind = "sync_accounts"
    /\ \/ LET rr == Render(TRUE, dashboardData, SetButton(plaid, r.live, "loading", FALSE),
                           FetchDashboardStart(Settle(inflight, r), user, FALSE, "none"), user)
          IN /\ loading' = TRUE
             /\ burst' = BurstStart(burst, inflight, dashboardData)
             /\ plaid' = rr.plaid
             /\ inflight' = rr.inflight
             /\ step' = Ev("SyncResponse", r, TRUE,
                           <<Alert("info", <<"Bank account connected successfully!", "">>)>>, 1)
       \/ \E e \in Errors :
            /\ loading' = loading
            /\ burst' = burst
            /\ inflight' = Settle(inflight, r)
            /\ plaid' = SetButton(plaid, r.live, "loading", FALSE)
            /\ step' = Ev("SyncResponse", r, FALSE, <<ErrAlert("Error connecting bank account: ", e)>>, 0)
    /\ UNCHANGED <<localStorage, appMounted, user, formLoading, dashMounted,
                   dashboardData, insights, nUser>>

Next ==
  \/ AppMount
  \/ HealthCheckResponse
  \/ Submit
  \/ CreateUserResponse
  \/ DashboardMount
  \/ DashboardResponse
  \/ InsightsResponse
  \/ RunSpendingAnalysis
  \/ CalculateHealthScore
  \/ GenerateBudgetRecommendations
  \/ AnalyzeResponse
  \/ HealthScoreResponse
  \/ BudgetResponse
  \/ ManualAccount
  \/ LinkTokenResponse
  \/ PlaidOpen
  \/ OnExit
  \/ OnSuccessStart
  \/ ExchangeResponse
  \/ SyncResponse

Spec == Init /\ [][Next]_vars

\* React runs a mounted component's effects after the render that mounted it
FairSpec == Spec /\ WF_vars(DashboardMount)

\* every issued request eventually gets its response (or its error), and the
\* components' mount effects run
LiveSpec ==
  /\ Spec
  /\ WF_vars(AppMount) /\ WF_vars(DashboardMount)
  /\ WF_vars(HealthCheckResponse) /\ WF_vars(CreateUserResponse)
  /\ WF_vars(DashboardResponse) /\ WF_vars(InsightsResponse)
  /\ WF_vars(AnalyzeResponse) /\ WF_vars(HealthScoreResponse)
  /\ WF_vars(BudgetResponse) /\ WF_vars(LinkTokenResponse)
  /\ WF_vars(ExchangeResponse) /\ WF_vars(SyncResponse)

\* ==================================================================
\* Properties
\* ==================================================================
\* number of requests of a kind for a user that await a response
Count(fl, kind, uid) ==
  LET rs == {r \in BagToSet(fl) : r.kind = kind /\ r.uid = uid}
      RECURSIVE Sum(_)
      Sum(S) == IF S = {} THEN 0
                ELSE LET x == CHOOSE y \in S : TRUE IN CopiesIn(x, fl) + Sum(S \ {x})
  IN Sum(rs)
UserIds == {u.id : u \in Users}
\* the step has put a new request of this kind for this user on the wire
Sent(kind, uid) == Count(inflight', kind, uid) > Count(inflight, kind, uid)
SentAny(kind) == \E uid \in UserIds : Sent(kind, uid)
ErrorAlerts(shown) == {i \in 1..Len(shown) : shown[i].type = "error"}

\* C1: an exchange-public-token request for user U is sent only by a
\* PlaidLinkButton that holds a link token the backend issued for U (a
\* create-link-token request for U succeeded), and a sync-accounts request
\* for U is sent only by the handler of a successful exchange-public-token
\* response for U.
C1_HandshakeOrder ==
  [][ \A uid \in UserIds :
        /\ Sent("exchange_public_token", uid) =>
             /\ plaid.mounted
             /\ plaid.linkToken # NoToken
             /\ plaid.linkToken = LinkTokenFor(uid)
        /\ Sent("sync_accounts", uid) =>
             /\ step'.act = "ExchangeResponse"
             /\ step'.settled.kind = "exchange_public_token"
             /\ step'.settled.uid = uid
             /\ step'.ok ]_vars
\* a sync-accounts request is on the wire: the whole order has been walked
C1_Witness ==
  /\ step.act = "ExchangeResponse" /\ step.ok
  /\ Count(inflight, "sync_accounts", user.id) > 0

\* C2 (as stated): when exchange-public-token fails, no sync-accounts request
\* is sent, exactly one failure notification is shown, the refresh callback
\* is not invoked, and afterwards the bank-link button is not busy and holds
\* a link token, so that the user can open the widget again.
C2_ExchangeFailureLeavesRetry ==
  [][ (step'.act = "ExchangeResponse" /\ ~step'.ok) =>
        /\ ~SentAny("sync_accounts")
        /\ Len(step'.shown) = 1 /\ ErrorAlerts(step'.shown) = {1}
        /\ step'.refresh = 0 /\ ~SentAny("dashboard")
        /\ plaid'.mounted /\ ~plaid'.loading /\ plaid'.linkToken # NoToken ]_vars

\* C3: once no fetchDashboard call is in flight, the stored snapshot is the
\* payload of the successful response that arrived last (the snapshot stored
\* before the calls when none succeeded), whole and unmerged.
Last(q) == q[Len(q)]
C3_LastResponseWins ==
  DashboardsInFlight(inflight) = {} =>
    dashboardData = IF burst.arrived = << >> THEN burst.before ELSE Last(burst.arrived)
\* two overlapping calls have settled with different payloads
C3_Witness ==
  /\ DashboardsInFlight(inflight) = {}
  /\ burst.overlap
  /\ Len(burst.arrived) = 2 /\ burst.arrived[1] # burst.arrived[2]
  /\ dashboardData = burst.arrived[2]

\* C4 (as stated): while an action operation is in flight the dashboard's
\* busy flag is set and the three action triggers are disabled.
ActionInFlight ==
  \E r \in BagToSet(inflight) : r.kind \in ActionKinds \/ r.inner
C4_BusyWhileActionInFlight == ActionInFlight => (loading /\ ~TriggersEnabled)

\* C5: a dashboard, insights or link-token response that arrives for a user
\* other than the active one, or for a PlaidLinkButton instance that is no
\* longer mounted, changes neither the stored snapshot, nor the insight list,
\* nor the link token of the mounted button.
StaleResponse(r) ==
  /\ r.kind \in {"dashboard", "insights", "create_link_token"}
  /\ \/ user = NoUser
     \/ r.uid # user.id
     \/ (r.kind = "create_link_token" /\ ~r.live)
C5_StaleResponseIgnored ==
  [][ StaleResponse(step'.settled) =>
        /\ dashboardData' = dashboardData
        /\ insights' = insights
        /\ plaid'.linkToken = plaid.linkToken ]_vars
\* the token of an unmounted instance arrived while the mounted one has none
C5_Witness ==
  /\ step.act = "LinkTokenResponse" /\ step.ok /\ ~step.settled.live
  /\ plaid.mounted /\ plaid.linkToken = NoToken

\* C6 (as stated): closing the widget shows nothing, sends nothing, does not
\* invoke the refresh callback, and puts the controller back where the next
\* attempt starts by requesting a link token (no token held).
C6_ExitRestartsFromRequestingToken ==
  [][ step'.act = "OnExit" =>
        /\ step'.shown = << >>
        /\ inflight' = inflight
        /\ step'.refresh = 0
        /\ plaid'.linkToken = NoToken ]_vars
\* C6 (amended): closing the widget shows nothing, sends nothing, does not
\* invoke the refresh callback, and leaves the button enabled with the link
\* token it already held: the next attempt reopens the widget with it.
C6_ExitKeepsTokenAndButton ==
  [][ step'.act = "OnExit" =>
        /\ step'.shown = << >>
        /\ inflight' = inflight
        /\ step'.refresh = 0
        /\ <<dashboardData', insights', loading'>> = <<dashboardData, insights, loading>>
        /\ plaid'.linkToken = plaid.linkToken
        /\ CanOpen(plaid') ]_vars
C6_Witness == step.act = "OnExit" /\ CanOpen(plaid) /\ plaid.linkToken # NoToken

\* C7: App's mount leaves the account-creation view and no user when
\* localStorage holds no record; otherwise the stored record is the active
\* user, the dashboard view is shown, and no request naming the user has
\* been sent at that point.
C7_Startup ==
  [][ step'.act = "AppMount" =>
        /\ localStorage = NoItem => (user' = NoUser /\ View' = "create")
        /\ \A u \in Users :
             localStorage = Stringify(u) =>
               /\ user' = u
               /\ View' = "dashboard"
               /\ \A r \in BagToSet(inflight') : r.uid = "none" ]_vars
C7_Witness ==
  /\ step.act = "AppMount"
  /\ user = StoredUser /\ View = "dashboard" /\ ~dashMounted
  /\ BagToSet(inflight) = {Req("health_check", "none", FALSE, FALSE, "none")}

\* C8: a successful create-user response makes the returned User the active
\* user and writes the same record to localStorage, after which the dashboard
\* and insights requests for that user's id are issued without a user action;
\* a failed one changes neither and shows one failure notification.
DashboardFetchIssued ==
  /\ step.act = "DashboardMount"
  /\ Count(inflight, "dashboard", user.id) > 0
  /\ Count(inflight, "insights", user.id) > 0
C8_CreateUser ==
  /\ [][ step'.act = "CreateUserResponse" =>
           IF step'.ok
             THEN /\ user' = step'.data.user
                  /\ localStorage' = Stringify(step'.data.user)
                  /\ Parse(localStorage') = user'
                  /\ View' = "dashboard"
             ELSE /\ user' = user /\ localStorage' = localStorage
                  /\ Len(step'.shown) = 1 /\ ErrorAlerts(step'.shown) = {1} ]_vars
  /\ (step.act = "CreateUserResponse" /\ step.ok) ~> DashboardFetchIssued
C8_Witness ==
  /\ DashboardFetchIssued
  /\ nUser = 1 /\ user.id = "u2" /\ localStorage = Stringify(user)

\* C9: a dashboard response replaces the stored snapshot by its payload; a
\* failed fetchDashboard leaves the snapshot, and a failed fetchInsights the
\* insight list, as it was, and neither shows a failure notification (a call
\* made on its own shows nothing at all).
C9_FetchAllOrNothing ==
  [][ /\ step'.act = "DashboardResponse" =>
           IF step'.ok
             THEN dashboardData' = step'.data.snapshot
             ELSE /\ dashboardData' = dashboardData
                  /\ ErrorAlerts(step'.shown) = {}
                  /\ ~step'.settled.inner => step'.shown = << >>
      /\ (step'.act = "InsightsResponse" /\ ~step'.ok) =>
           /\ insights' = insights
           /\ ErrorAlerts(step'.shown) = {}
           /\ ~step'.settled.inner => step'.shown = << >> ]_vars
\* a failed fetch has left an earlier snapshot in place
C9_Witness ==
  /\ step.act = "DashboardResponse" /\ ~step.ok
  /\ dashboardData # NoData

\* C10 (as stated): whatever the outcome of the analyze-spending call, an
\* insights request is issued when it settles.
C10_RefetchWhateverOutcome ==
  [][ step'.act = "AnalyzeResponse" => Sent("insights", step'.settled.uid) ]_vars
\* C10 (amended): when analyze-spending succeeds an insights request is
\* issued, and when that settles, with either outcome, one success
\* notification is shown; when analyze-spending fails no insights request is
\* issued and one failure notification is shown.
C10_RefetchOnSuccessOnly ==
  [][ /\ (step'.act = "AnalyzeResponse" /\ step'.ok) =>
           /\ Sent("insights", step'.settled.uid)
           /\ step'.shown = << >>
      /\ (step'.act = "AnalyzeResponse" /\ ~step'.ok) =>
           /\ ~SentAny("insights")
           /\ Len(step'.shown) = 1 /\ ErrorAlerts(step'.shown) = {1}
      /\ (step'.act = "InsightsResponse" /\ step'.settled.inner) =>
           /\ Len(step'.shown) = 1 /\ step'.shown[1].type = "info" ]_vars
C10_Witness ==
  /\ step.act = "AnalyzeResponse" /\ ~step.ok
  /\ Count(inflight, "insights", user.id) = 0
  /\ Len(step.shown) = 1

\* C12 (as stated): at most one create-link-token request per user awaits a
\* response at any time, whatever the dashboard renders.
C12_OneLinkTokenRequestPerUser ==
  \A uid \in UserIds : Count(inflight, "create_link_token", uid) <= 1

\* C13: the handshake invokes the refresh callback once, starting one
\* dashboard fetch, in the handler of a successful sync-accounts response
\* (which is sent only after a successful exchange), and in no other handler
\* of the handshake: not after a failed exchange or sync, not on exit.
HandshakeActs == {"PlaidOpen", "OnExit", "OnSuccessStart", "LinkTokenResponse",
                  "ExchangeResponse", "SyncResponse"}
DashboardCount(fl) ==
  LET RECURSIVE Sum(_)
      Sum(S) == IF S = {} THEN 0
                ELSE LET x == CHOOSE y \in S : TRUE IN CopiesIn(x, fl) + Sum(S \ {x})
  IN Sum(DashboardsInFlight(fl))
C13_RefreshOncePerLinkedAttempt ==
  [][ step'.act \in HandshakeActs =>
        IF step'.act = "SyncResponse" /\ step'.ok
          THEN /\ step'.refresh = 1
               /\ DashboardCount(inflight') = DashboardCount(inflight) + 1
          ELSE /\ step'.refresh = 0
               /\ DashboardCount(inflight') = DashboardCount(inflight) ]_vars
\* a linked attempt has completed and its refresh is in flight
C13_Witness ==
  /\ step.act = "SyncResponse" /\ step.ok /\ step.refresh = 1
  /\ DashboardCount(inflight) > 0 /\ loading

\* C14: the handler of a dashboard response leaves the insight list alone
\* and stores a snapshot that depends on its own response and the previous
\* snapshot only; the handler of an insights response leaves the snapshot
\* alone (and, called on its own, the busy flag) and stores a list that
\* depends on its own response and the previous list only.  The two
\* therefore commute: either completion order gives the same pair.
C14_FetchesIndependent ==
  [][ /\ step'.act = "DashboardResponse" =>
           /\ insights' = insights
           /\ dashboardData' = IF step'.ok THEN step'.data.snapshot ELSE dashboardData
      /\ step'.act = "InsightsResponse" =>
           /\ dashboardData' = dashboardData
           /\ burst' = burst
           /\ ~step'.settled.inner => loading' = loading
           /\ insights' = IF step'.ok THEN step'.data.insights ELSE insights ]_vars
\* the two fetches of the user load have settled, insights first
C14_Witness ==
  /\ nUser = 0 /\ dashMounted
  /\ step.act = "DashboardResponse" /\ step.ok
  /\ DashboardsInFlight(inflight) = {}
  /\ Count(inflight, "insights", user.id) = 0
  /\ insights = <<"i1">> /\ dashboardData # NoData

\* C15: whenever no request awaits a response the three loading flags are
\* false, and, every request being answered, a set flag leads to a state in
\* which all three are false.
AnyBusy == loading \/ plaid.loading \/ formLoading
C15_BusyFlagsReleased ==
  /\ [](inflight = EmptyBag => ~AnyBusy)
  /\ AnyBusy ~> ~AnyBusy
\* every call of a session with failures has settled
C15_Witness ==
  /\ inflight = EmptyBag /\ ~AnyBusy
  /\ dashMounted /\ nUser = MaxUserActions
  /\ step.settled # NoReq /\ ~step.ok

\* C11 (as stated), in its nearest instance: the request whose failure the
\* last handler handled is not sent again by the next handler, unless that
\* handler is run by a user action (a click, a submit, the end-user's use of
\* the widget).
UserActs == {"Submit", "ActionStart", "ManualAccount", "PlaidOpen", "OnExit",
             "OnSuccessStart"}
C11_NoAutomaticReissue ==
  [][ (step.settled # NoReq /\ ~step.ok /\ step'.act \notin UserActs) =>
        ~Sent(step.settled.kind, step.settled.uid) ]_vars

====
